---- MODULE Spec2Model ----
(***************************************************************************)
(* The simulation kernel of ceam/framework/engine.py: the setup traversal  *)
(* of SimulationContext.setup, the event loop (_step, event_loop), and the *)
(* entry points run_simulation, run and run_configuration.                 *)
(***************************************************************************)
EXTENDS Integers, Sequences, FiniteSets, TLC

VARIABLES
    input,            \* what the caller supplies: components, configuration, entry point
    pc,               \* position of the single thread of control
    self_components,  \* SimulationContext.components
    components,       \* the local work list of SimulationContext.setup
    i,                \* the index into the work list (0-based, as in the code)
    done,             \* the set of components whose setup has returned
    config,           \* the layer component_configs of the process-wide configuration
    metrics_source,   \* the source of the pipeline 'metrics' in the values manager
    listeners,        \* the components the event manager has bound, in order
    finalized,        \* the setup_components calls made so far, with their argument
    current_time,     \* SimulationContext.current_time, in days
    stop,             \* event_loop's local stop, in days
    population,       \* the number of simulants; the index is 1..population
    wall_start,       \* run_simulation's local start
    result,           \* the mapping returned to the caller of the entry point
    metrics_mutators, \* the mutators of the pipeline 'metrics', in order
    step_at,          \* the statement of _step about to execute (0 outside _step)
    run,              \* 1 for the first run of a pair of independent runs, 2 for the second
    first_result,     \* the mapping the first run returned
    table,            \* the population table: one row per simulant (lookup, screening)
    trace             \* history: the calls the kernel has made, in order

vars == <<input, pc, self_components, components, i, done, config, metrics_source,
          listeners, finalized, current_time, stop, population, wall_start, result,
          metrics_mutators, step_at, run, first_result, table, trace>>

-----------------------------------------------------------------------------
(* Bounds of the model. *)

MaxComponents == 2

MaxYears == 2

MaxWall == 1

-----------------------------------------------------------------------------
(* Values of the code. *)

NoTime == -1

NoEvent == -1

Managers == <<"values", "events", "population", "tables">>

CtorAppended == <<"tables", "values", "events", "population">>

KernelFunctions == <<"_step", "event_loop">>

ManagerSet == {Managers[k] : k \in 1..Len(Managers)}

(* The component catalog: what the loader can supply.                      *)
(*   Risk     has setup and defaults; its setup returns <<Births, Risk>>,   *)
(*            it listens on time_step and mutates the pipeline 'metrics'    *)
(*   Births   has setup; it declares the source of 'metrics' and creates a  *)
(*            simulant in its time_step__prepare listener                   *)
(*   Params   has defaults only                                             *)
(*   Pair     is a tuple (Risk, Params)                                     *)
(*   Group    is a list [Births]                                            *)
UserComponents == {"Risk", "Births", "Params", "Pair", "Group"}

HasSetup(c) == c \in ManagerSet \cup {"Risk", "Births"}

HasDefaults(c) == c \in {"Risk", "Params"}

Defaults(c) ==
    IF c = "Risk" THEN ("k1" :> 1)
    ELSE IF c = "Params" THEN ("k1" :> 2) @@ ("k2" :> 2)
    ELSE <<>>

IsIterable(c) == c \in {"Pair", "Group"}

Members(c) ==
    IF c = "Pair" THEN <<"Risk", "Params">>
    ELSE IF c = "Group" THEN <<"Births">>
    ELSE <<>>

Hashable(c) == c # "Group"

SubComponents(c) == IF c = "Risk" THEN <<"Births", "Risk">> ELSE <<>>

MayRaise(c) == c \in UserComponents

DeclaresMetricsSource(c) == c = "Births"

ListensOn(c) ==
    IF c = "Risk" THEN {"time_step", "post_setup"}
    ELSE IF c = "Births" THEN {"time_step__prepare", "simulation_end"}
    ELSE {}

-----------------------------------------------------------------------------
(* Helpers. *)

RECURSIVE SeqsUpTo(_, _)
SeqsUpTo(S, n) ==
    IF n = 0 THEN {<<>>}
    ELSE LET shorter == SeqsUpTo(S, n - 1)
         IN shorter \cup {Append(s, x) : s \in {t \in shorter : Len(t) = n - 1}, x \in S}

Range(s) == {s[k] : k \in 1..Len(s)}

BuilderClockWhenObtained == NoTime

(* builder.clock(): lambda: context.current_time, read when it is called *)
BuilderClock == current_time

(* an entry of the history; its time is read from a clock obtained during setup *)
Entry(act, arg, index) ==
    [act |-> act, arg |-> arg, index |-> index, time |-> BuilderClock]

ReadDict(defaults, layer) == defaults @@ layer

Load(cs) == cs

-----------------------------------------------------------------------------
(* datetime(year, 6, 1) as a proleptic Gregorian ordinal, in days. *)

IsLeap(y) == (y % 4 = 0 /\ y % 100 # 0) \/ y % 400 = 0

DaysBeforeYear(y) == 365 * (y - 1) + ((y - 1) \div 4) - ((y - 1) \div 100) + ((y - 1) \div 400)

JuneFirst(y) == DaysBeforeYear(y) + 151 + (IF IsLeap(y) THEN 1 ELSE 0) + 1

-----------------------------------------------------------------------------
(* The inputs: the component list and the configuration values read. *)

Years == 2003..(2003 + MaxYears)

TimeSteps == {100, 183, 365, 366}

ComponentLists == SeqsUpTo(UserComponents, MaxComponents)

SetupInputs ==
    [components : ComponentLists, year_start : {2003}, year_end : {2003, 2004},
     time_step : {183}, population_size : {2}, initial_age : {""},
     draw_number : {0}, entry : {"run", "run_configuration"}]

LoopInputs ==
    [components : {<<"Births">>, <<"Risk">>}, year_start : Years, year_end : Years,
     time_step : TimeSteps, population_size : {1, 2}, initial_age : {"", "30"},
     draw_number : {0, 1}, entry : {"run"}]

Inputs == SetupInputs \cup LoopInputs

-----------------------------------------------------------------------------
(* The state before setup_simulation is called. *)

Init ==
    /\ input \in Inputs
    /\ pc = "start"
    /\ self_components = <<>>
    /\ components = <<>>
    /\ i = 0
    /\ done = {}
    /\ config = <<>>
    /\ metrics_source = "none"
    /\ metrics_mutators = <<>>
    /\ listeners = <<>>
    /\ finalized = <<>>
    /\ current_time = NoTime
    /\ stop = NoTime
    /\ population = 0
    /\ wall_start = 0
    /\ result = <<>>
    /\ step_at = 0
    /\ run = 1
    /\ first_result = <<>>
    /\ table = <<>>
    /\ trace = <<>>

-----------------------------------------------------------------------------
(* setup_simulation, SimulationContext.__init__ and SimulationContext.setup *)

WorkListNoPrepend(cs) == cs

WorkList(cs) == Managers \o cs

ConfigNotMerged(c, layer) == layer

ConfigBeforeSetup(c, layer) ==
    IF HasDefaults(c) THEN ReadDict(Defaults(c), layer) ELSE layer

DoneForgotten(c) == done

DoneAfter(c) == done \cup {c}

FinalizeArgumentInitial == self_components

FinalizeArgument == components

AfterFinalizeSkipsPostSetup == "ready"

AfterFinalize == "post_setup"

AfterRaiseLoopGoesOn == IF pc \in {"loop", "_step"} THEN "loop" ELSE "aborted"

(* no statement of the kernel catches an error: the call stack unwinds *)
AfterRaise == "aborted"

(* setup_simulation builds the context; setup builds its work list *)
SetupSimulation ==
    /\ pc = "start"
    /\ self_components' = Load(input.components \o KernelFunctions) \o CtorAppended
    /\ components' = WorkList(self_components')
    /\ i' = 0
    /\ done' = {}
    /\ pc' = "traverse"
    /\ UNCHANGED <<input, table, config, metrics_source, listeners, finalized, current_time, stop,
                   population, wall_start, result, metrics_mutators, step_at, run,
                   first_result, trace>>

(* one iteration of the while loop, up to the call of component.setup *)
Visit ==
    /\ pc = "traverse"
    /\ i < Len(components)
    /\ LET component == components[i + 1]
           unpacked == IF IsIterable(component)
                       THEN components \o Members(component) ELSE components
           seen == IF IsIterable(component)
                   THEN Append(trace, Entry("unpack", component, i)) ELSE trace
       IN  IF ~Hashable(component)
           THEN \* component not in done raises TypeError
                /\ components' = unpacked
                /\ trace' = Append(seen, Entry("raise", component, i))
                /\ pc' = AfterRaise
                /\ UNCHANGED <<i, config>>
           ELSE IF component \in done
           THEN /\ components' = unpacked
                /\ trace' = seen
                /\ i' = i + 1
                /\ UNCHANGED <<pc, config>>
           ELSE /\ components' = unpacked
                /\ config' = ConfigBeforeSetup(component, config)
                /\ LET merged == IF HasDefaults(component)
                                 THEN Append(seen, Entry("defaults", component, i)) ELSE seen
                   IN  IF HasSetup(component)
                       THEN /\ trace' = Append(merged, Entry("setup_call", component, i))
                            /\ pc' = "in_setup"
                            /\ i' = i
                       ELSE /\ trace' = merged
                            /\ pc' = pc
                            /\ i' = i + 1
    /\ UNCHANGED <<input, table, self_components, done, metrics_source, listeners, finalized,
                   current_time, stop, population, wall_start, result, metrics_mutators,
                   step_at, run, first_result>>

(* component.setup(builder) returns: done.add, extend, i += 1 *)
SetupReturn ==
    /\ pc = "in_setup"
    /\ LET component == components[i + 1]
       IN  /\ done' = DoneAfter(component)
           /\ components' = components \o SubComponents(component)
           /\ metrics_source' = IF DeclaresMetricsSource(component) THEN component ELSE metrics_source
           /\ metrics_mutators' = IF component = "Risk"
                                  THEN Append(metrics_mutators, "Risk") ELSE metrics_mutators
           /\ trace' = Append(trace, Entry("setup_return", component, i))
    /\ i' = i + 1
    /\ pc' = "traverse"
    /\ UNCHANGED <<input, table, self_components, config, listeners, finalized, current_time, stop,
                   population, wall_start, result, step_at, run, first_result>>

(* component.setup(builder) raises: nothing catches it *)
SetupRaise ==
    /\ pc = "in_setup"
    /\ MayRaise(components[i + 1])
    /\ trace' = Append(trace, Entry("raise", components[i + 1], i))
    /\ pc' = AfterRaise
    /\ UNCHANGED <<input, table, self_components, components, i, done, config, metrics_source,
                   listeners, finalized, current_time, stop, population, wall_start, result,
                   metrics_mutators, step_at, run, first_result>>

(* the four setup_components calls, in the order of the code *)
Finalize ==
    /\ \/ pc = "traverse" /\ ~(i < Len(components))
       \/ pc = "finalize"
    /\ LET manager == Managers[Len(finalized) + 1]
       IN  /\ finalized' = Append(finalized, [manager |-> manager, components |-> FinalizeArgument])
           /\ listeners' = IF manager = "events"
                           THEN SelectSeq(FinalizeArgument, LAMBDA c : ListensOn(c) # {})
                           ELSE listeners
           /\ trace' = Append(trace, Entry("finalize", manager, Len(FinalizeArgument)))
    /\ pc' = IF Len(finalized') = Len(Managers) THEN AfterFinalize ELSE "finalize"
    /\ UNCHANGED <<input, table, self_components, components, i, done, config, metrics_source,
                   current_time, stop, population, wall_start, result, metrics_mutators,
                   step_at, run, first_result>>

-----------------------------------------------------------------------------
(* Emission: every listener bound to the channel is called, in order. *)

ChannelListeners(ch) == SelectSeq(listeners, LAMBDA c : ch \in ListensOn(c))

(* a draw of a randomness stream is a function of the clock and the draw number *)
Fertile(t, d) == (t + d) % 2 = 0

ListenerEffect(c, ch, pop) ==
    IF c = "Births" /\ ch = "time_step__prepare" /\ Fertile(BuilderClock, input.draw_number)
    THEN pop + 1 ELSE pop

RECURSIVE AfterListeners(_, _, _)
AfterListeners(ls, ch, pop) ==
    IF ls = <<>> THEN pop
    ELSE AfterListeners(Tail(ls), ch, ListenerEffect(Head(ls), ch, pop))

(* the history of one emission: the event passed, then the simulants listeners created *)
Emission(ch, event, ls) ==
    <<Entry("emit", ch, event)>> \o
    (IF AfterListeners(ls, ch, population) > population
     THEN <<Entry("born", ch, AfterListeners(ls, ch, population) - population)>>
     ELSE <<>>)

Emitted(ch, event) ==
    /\ trace' = trace \o Emission(ch, event, ChannelListeners(ch))
    /\ population' = AfterListeners(ChannelListeners(ch), ch, population)

(* self.events.get_emitter('post_setup')(None) *)
PostSetup ==
    /\ pc = "post_setup"
    /\ Emitted("post_setup", NoEvent)
    /\ pc' = "ready"
    /\ UNCHANGED <<input, table, self_components, components, i, done, config, metrics_source,
                   listeners, finalized, current_time, stop, wall_start, result,
                   metrics_mutators, step_at, run, first_result>>

-----------------------------------------------------------------------------
(* run_simulation, event_loop and _step *)

EventIndexAtTickStart ==
    IF pc = "_step"
    THEN trace[CHOOSE k \in 1..Len(trace) :
                 /\ trace[k].act = "emit" /\ trace[k].arg = "time_step__prepare"
                 /\ \A j \in (k + 1)..Len(trace) :
                      ~(trace[j].act = "emit" /\ trace[j].arg = "time_step__prepare")].index
    ELSE population

(* Event(simulation.population.population.index) *)
EventIndex == population

StepBodyAdvanceEarly == <<"time_step__prepare", "time_step", "advance", "time_step__cleanup">>

StepBody == <<"time_step__prepare", "time_step", "time_step__cleanup", "advance">>

LoopContinuesAtLeastOnce ==
    current_time < stop \/ current_time = JuneFirst(input.year_start)

LoopContinuesInclusive == current_time <= stop

LoopContinues == current_time < stop

RunMetadataWithStart(start, now) ==
    ("simulation_run_time" :> (now - start)) @@ ("simulation_start" :> start)

RunMetadata(start, now) == "simulation_run_time" :> (now - start)

(* start = time(); event_loop reads start and stop and sets the clock *)
RunSimulation ==
    /\ pc = "ready"
    /\ \E now \in 0..MaxWall : wall_start' = now
    /\ current_time' = JuneFirst(input.year_start)
    /\ stop' = JuneFirst(input.year_end)
    /\ pc' = "create"
    /\ UNCHANGED <<input, table, self_components, components, i, done, config, metrics_source,
                   listeners, finalized, population, result, metrics_mutators, step_at,
                   run, first_result, trace>>

InitialAgeAlwaysPassed == TRUE

InitialAgePassed == input.initial_age # ""

(* simulant_creator(population_size[, population_configuration]) *)
CreateSimulants ==
    /\ pc = "create"
    /\ population' = population + input.population_size
    /\ trace' = Append(trace, Entry("create",
                       IF InitialAgePassed THEN input.initial_age ELSE "none",
                       input.population_size))
    /\ pc' = "loop"
    /\ UNCHANGED <<input, table, self_components, components, i, done, config, metrics_source,
                   listeners, finalized, current_time, stop, wall_start, result,
                   metrics_mutators, step_at, run, first_result>>

InStep == (pc = "loop" /\ LoopContinues) \/ pc = "_step"

StepAt == IF pc = "loop" THEN 1 ELSE step_at

StepNext ==
    IF StepAt = Len(StepBody)
    THEN pc' = "loop" /\ step_at' = 0
    ELSE pc' = "_step" /\ step_at' = StepAt + 1

(* one of the three emissions of _step *)
StepEmit ==
    /\ InStep
    /\ StepBody[StepAt] # "advance"
    /\ Emitted(StepBody[StepAt], EventIndex)
    /\ StepNext
    /\ UNCHANGED <<input, table, self_components, components, i, done, config, metrics_source,
                   listeners, finalized, current_time, stop, wall_start, result,
                   metrics_mutators, run, first_result>>

(* simulation.current_time += time_step *)
StepAdvance ==
    /\ InStep
    /\ StepBody[StepAt] = "advance"
    /\ current_time' = current_time + input.time_step
    /\ trace' = Append(trace, Entry("advance", "clock", input.time_step))
    /\ StepNext
    /\ UNCHANGED <<input, table, self_components, components, i, done, config, metrics_source,
                   listeners, finalized, stop, population, wall_start, result,
                   metrics_mutators, run, first_result>>

(* end_emitter(Event(index)) once the while loop has ended *)
SimulationEnd ==
    /\ pc = "loop"
    /\ ~LoopContinues
    /\ Emitted("simulation_end", EventIndex)
    /\ pc' = "metrics"
    /\ UNCHANGED <<input, table, self_components, components, i, done, config, metrics_source,
                   listeners, finalized, current_time, stop, wall_start, result,
                   metrics_mutators, step_at, run, first_result>>

(* the channel whose emission is next, "none" when the next statement emits nothing *)
Pending ==
    IF pc = "post_setup" THEN "post_setup"
    ELSE IF pc = "loop" /\ ~LoopContinues THEN "simulation_end"
    ELSE IF InStep /\ StepBody[StepAt] # "advance" THEN StepBody[StepAt]
    ELSE "none"

(* a listener raises: the listeners before it have run, nothing catches the error *)
ListenerRaises ==
    /\ Pending # "none"
    /\ \E k \in 1..Len(ChannelListeners(Pending)) :
         /\ MayRaise(ChannelListeners(Pending)[k])
         /\ population' = AfterListeners(SubSeq(ChannelListeners(Pending), 1, k - 1),
                                         Pending, population)
         /\ trace' = trace \o
                       Emission(Pending, IF Pending = "post_setup" THEN NoEvent ELSE EventIndex,
                                SubSeq(ChannelListeners(Pending), 1, k - 1)) \o
                       <<Entry("raise", ChannelListeners(Pending)[k], k)>>
    /\ pc' = AfterRaise
    /\ UNCHANGED <<input, table, self_components, components, i, done, config, metrics_source,
                   listeners, finalized, current_time, stop, wall_start, result,
                   metrics_mutators, step_at, run, first_result>>

-----------------------------------------------------------------------------
(* The pipeline 'metrics' and the entry points. *)

SourceValue(source, index) == IF source = "Births" THEN ("cohort" :> index) ELSE <<>>

MutatorValue(c, index, value) == IF c = "Risk" THEN ("exposed" :> index) @@ value ELSE value

RECURSIVE Mutated(_, _, _)
Mutated(ms, index, value) ==
    IF ms = <<>> THEN value
    ELSE Mutated(Tail(ms), index, MutatorValue(Head(ms), index, value))

Pipeline(source, index) == Mutated(metrics_mutators, index, SourceValue(source, index))

(* metrics.source = lambda index: {}; metrics(index); metrics['simulation_run_time'] *)
ComputeMetrics ==
    /\ pc = "metrics"
    /\ metrics_source' = "default"
    /\ \E now \in wall_start..MaxWall :
         result' = RunMetadata(wall_start, now) @@ Pipeline(metrics_source', population)
    /\ trace' = Append(trace, Entry("metrics", "metrics", population))
    /\ pc' = "returned"
    /\ UNCHANGED <<input, table, self_components, components, i, done, config, listeners,
                   finalized, current_time, stop, population, wall_start,
                   metrics_mutators, step_at, run, first_result>>

(* run: metrics['draw'] = config.run_configuration.draw_number *)
RunFinish ==
    /\ pc = "returned"
    /\ input.entry = "run"
    /\ result' = ("draw" :> input.draw_number) @@ result
    /\ pc' = "done"
    /\ UNCHANGED <<input, table, self_components, components, i, done, config, metrics_source,
                   listeners, finalized, current_time, stop, population, wall_start,
                   metrics_mutators, step_at, run, first_result, trace>>

(* run_configuration: metrics['comparison'] = configuration['name'] *)
RunConfigurationFinish ==
    /\ pc = "returned"
    /\ input.entry = "run_configuration"
    /\ result' = ("comparison" :> 1) @@ result
    /\ pc' = "done"
    /\ UNCHANGED <<input, table, self_components, components, i, done, config, metrics_source,
                   listeners, finalized, current_time, stop, population, wall_start,
                   metrics_mutators, step_at, run, first_result, trace>>

(* a second, independent run of the same input: a fresh process *)
SecondRun ==
    /\ pc = "done"
    /\ run = 1
    /\ run' = 2
    /\ first_result' = result
    /\ pc' = "start"
    /\ self_components' = <<>>
    /\ components' = <<>>
    /\ i' = 0
    /\ done' = {}
    /\ config' = <<>>
    /\ metrics_source' = "none"
    /\ metrics_mutators' = <<>>
    /\ listeners' = <<>>
    /\ finalized' = <<>>
    /\ current_time' = NoTime
    /\ stop' = NoTime
    /\ population' = 0
    /\ wall_start' = 0
    /\ result' = <<>>
    /\ step_at' = 0
    /\ trace' = <<>>
    /\ UNCHANGED <<input, table>>

Next ==
    \/ SetupSimulation
    \/ Visit
    \/ SetupReturn
    \/ SetupRaise
    \/ Finalize
    \/ PostSetup
    \/ RunSimulation
    \/ CreateSimulants
    \/ StepEmit
    \/ StepAdvance
    \/ SimulationEnd
    \/ ListenerRaises
    \/ ComputeMetrics
    \/ RunFinish
    \/ RunConfigurationFinish

Spec == Init /\ [][Next]_vars

NextRuns == Next \/ SecondRun

SpecRuns == Init /\ [][NextRuns]_vars

-----------------------------------------------------------------------------
(* What the history records. *)

Emits == SelectSeq(trace, LAMBDA e : e.act = "emit")

CountEmit(ch) ==
    Cardinality({k \in 1..Len(trace) : trace[k].act = "emit" /\ trace[k].arg = ch})

Advances == Cardinality({k \in 1..Len(trace) : trace[k].act = "advance"})

SetupCalls(c) ==
    Cardinality({k \in 1..Len(trace) : trace[k].act = "setup_call" /\ trace[k].arg = c})

Occurrences(c) == Cardinality({k \in 1..Len(components) : components[k] = c})

Raised == \E k \in 1..Len(trace) : trace[k].act = "raise"

TickChannels == {"time_step__prepare", "time_step", "time_step__cleanup"}

TickTrace ==
    SelectSeq(trace, LAMBDA e : e.act = "advance" \/ (e.act = "emit" /\ e.arg \in TickChannels))

TickLabel(e) == IF e.act = "advance" THEN "advance" ELSE e.arg

CeilDiv(a, b) == (a + b - 1) \div b

LoopEnded == pc \in {"metrics", "returned", "done"}

-----------------------------------------------------------------------------
(* C1: in every tick the kernel emits time_step__prepare, time_step and    *)
(* time_step__cleanup once each, in that order, and only then advances the  *)
(* clock, by exactly one time_step; between two ticks the clock is the      *)
(* start time plus one time_step per completed tick.                        *)
C1_TickOrder ==
    /\ \A k \in 1..Len(TickTrace) :
         TickLabel(TickTrace[k]) =
           <<"time_step__prepare", "time_step", "time_step__cleanup", "advance">>[((k - 1) % 4) + 1]
    /\ \A k \in 1..Len(TickTrace) :
         TickTrace[k].time = JuneFirst(input.year_start) + input.time_step * ((k - 1) \div 4)
    /\ pc \in {"loop", "metrics", "returned", "done"} => Len(TickTrace) % 4 = 0
    /\ current_time # NoTime =>
         current_time = JuneFirst(input.year_start) + input.time_step * Advances

C1_Witness == pc = "loop" /\ Advances = 2 /\ Len(TickTrace) = 8

(* C2: post_setup is emitted exactly once and is the first emission;       *)
(* simulation_end is emitted exactly once, is the last emission and comes   *)
(* right after the cleanup of the last tick, or after post_setup when the   *)
(* run has no tick.                                                         *)
C2_OneShotChannels ==
    /\ CountEmit("post_setup") <= 1
    /\ CountEmit("simulation_end") <= 1
    /\ \A k \in 1..Len(Emits) :
         /\ (Emits[k].arg = "post_setup") <=> (k = 1)
         /\ Emits[k].arg = "simulation_end" =>
              /\ k = Len(Emits)
              /\ Emits[k - 1].arg = IF Advances = 0 THEN "post_setup" ELSE "time_step__cleanup"
    /\ pc \in {"ready", "create", "loop", "_step"} => CountEmit("post_setup") = 1
    /\ LoopEnded => CountEmit("post_setup") = 1 /\ CountEmit("simulation_end") = 1

C2_Witness == pc = "done" /\ Advances >= 2 /\ CountEmit("simulation_end") = 1

(* the run of C2 with year_end = year_start: no tick, one simulation_end *)
C2_WitnessNoTick == pc = "done" /\ Advances = 0 /\ CountEmit("simulation_end") = 1

C4_TickCount ==
    (LoopEnded /\ input.year_end >= input.year_start) =>
        /\ Advances = CeilDiv(JuneFirst(input.year_end) - JuneFirst(input.year_start),
                              input.time_step)
        /\ stop <= current_time
        /\ current_time < stop + input.time_step

C4_Witness ==
    /\ pc = "done"
    /\ input.year_end > input.year_start
    /\ Advances = 1
    /\ CeilDiv((input.year_end - input.year_start) * 1461, 4 * input.time_step) = 2

(* C4 as claimed: the number of ticks is ceil((Y1 - Y0) * 365.25 / T).      *)
C4_TickCountByMeanYear ==
    (LoopEnded /\ input.year_end >= input.year_start) =>
        /\ Advances = CeilDiv((input.year_end - input.year_start) * 1461, 4 * input.time_step)
        /\ stop <= current_time
        /\ current_time < stop + input.time_step

(* C5: no component's setup is called twice, and once the work list is      *)
(* exhausted every component of it that exposes setup has had exactly one   *)
(* setup call, however often it occurs in the list.                         *)
C5_SetupOnce ==
    \A c \in Range(components) :
        HasSetup(c) =>
            /\ SetupCalls(c) <= 1
            /\ finalized # <<>> => SetupCalls(c) = 1

C5_Witness ==
    /\ pc = "ready"
    /\ Occurrences("Risk") >= 3
    /\ Occurrences("Births") >= 1
    /\ Occurrences("values") = 2
    /\ "Pair" \in Range(components)

(* C6: when a setup call begins, the setup of every component ahead of it   *)
(* in the work list has returned; setup calls follow the order of first     *)
(* occurrence in the work list; a component that was not in the initial     *)
(* work list is set up only after the component that introduced it was      *)
(* unpacked or returned from its setup; and the four managers are set up    *)
(* before every other component.                                            *)
C6_SetupOrder ==
    /\ pc = "in_setup" =>
         /\ \A j \in 1..i : HasSetup(components[j]) => components[j] \in done
         /\ components[i + 1] \notin {"values", "events", "population", "tables"} =>
              {"values", "events", "population", "tables"} \subseteq done
    /\ \A p \in 1..Len(trace) :
         trace[p].act = "setup_call" =>
           /\ \A j \in 1..trace[p].index : components[j] # trace[p].arg
           /\ \A q \in 1..(p - 1) :
                trace[q].act = "setup_call" => trace[q].index < trace[p].index
           /\ trace[p].index >= Len(self_components) + 4 =>
                \E q \in 1..(p - 1) :
                  \/ /\ trace[q].act = "setup_return"
                     /\ trace[p].arg \in Range(SubComponents(trace[q].arg))
                  \/ /\ trace[q].act = "unpack"
                     /\ trace[p].arg \in Range(Members(trace[q].arg))

C6_Witness ==
    /\ pc = "in_setup"
    /\ components[i + 1] = "Risk"
    /\ i >= Len(self_components) + 4
    /\ "Births" \in done

(* C7: when the setup call of a component with configuration defaults       *)
(* begins, the configuration holds each of its defaults, merged by the      *)
(* statement just before the call.                                          *)
C7_DefaultsBeforeSetup ==
    (pc = "in_setup" /\ HasDefaults(components[i + 1])) =>
        /\ \A k \in DOMAIN Defaults(components[i + 1]) :
             /\ k \in DOMAIN config
             /\ config[k] = Defaults(components[i + 1])[k]
        /\ trace[Len(trace)].act = "setup_call"
        /\ trace[Len(trace) - 1].act = "defaults"
        /\ trace[Len(trace) - 1].arg = components[i + 1]

C7_Witness ==
    /\ pc = "in_setup"
    /\ components[i + 1] = "Risk"
    /\ "k2" \in DOMAIN config
    /\ config["k1"] = 1

(* C8: the managers are finalized in the order values, events, population, *)
(* tables, only once the work list is exhausted and every setup call has    *)
(* returned; each receives the whole work list, with the components found   *)
(* during setup; post_setup is emitted after the fourth finalization.       *)
C8_FinalizeAfterTraversal ==
    /\ \A k \in 1..Len(finalized) :
         /\ finalized[k].manager = <<"values", "events", "population", "tables">>[k]
         /\ finalized[k].components = components
    /\ finalized # <<>> =>
         /\ i = Len(components)
         /\ \A c \in Range(components) : HasSetup(c) => c \in done
    /\ \A p \in 1..Len(trace) :
         /\ trace[p].act = "finalize" =>
              \A q \in (p + 1)..Len(trace) :
                trace[q].act \notin {"setup_call", "setup_return", "unpack", "defaults"}
         /\ (trace[p].act = "emit" /\ trace[p].arg = "post_setup") =>
              Cardinality({q \in 1..(p - 1) : trace[q].act = "finalize"}) = 4

C8_Witness ==
    /\ pc = "ready"
    /\ Len(finalized) = 4
    /\ Len(components) > Len(self_components) + 4
    /\ CountEmit("post_setup") = 1

(* C9: once a setup call or a listener has raised, the kernel takes no      *)
(* further step: every variable, the population and the configuration       *)
(* included, keeps the value it had when the error was raised, and no       *)
(* result is returned.                                                      *)
C9_NothingAfterError ==
    /\ [](Raised => (pc = "aborted" /\ result = <<>>))
    /\ [][Raised => UNCHANGED vars]_vars

C9_Witness ==
    /\ Raised
    /\ Emits # <<>>
    /\ Emits[Len(Emits)].arg = "time_step"
    /\ population > input.population_size
    /\ "k1" \in DOMAIN config
    /\ CountEmit("simulation_end") = 0

(* C10 as claimed: the mapping a completed run leaves with the entry point  *)
(* holds the draw number and the run time, merged with the value of the     *)
(* pipeline 'metrics' over the final population index.                      *)
C10_ResultHasRunMetadata ==
    pc = "done" =>
        /\ "draw" \in DOMAIN result
        /\ result["draw"] = input.draw_number
        /\ "simulation_run_time" \in DOMAIN result
        /\ \A k \in DOMAIN Pipeline(metrics_source, population) :
             k \in DOMAIN result /\ result[k] = Pipeline(metrics_source, population)[k]

-----------------------------------------------------------------------------
(* the component whose setup declared the source of 'metrics', if any *)
DeclaredMetricsSource ==
    IF \E c \in done : DeclaresMetricsSource(c)
    THEN CHOOSE c \in done : DeclaresMetricsSource(c)
    ELSE "default"

(* C11 as claimed: the empty mapping is the source of the pipeline 'metrics'  *)
(* only when no component declared one; a source a component declared during  *)
(* setup is still the source when run_simulation evaluates the pipeline, and  *)
(* its value is in the returned mapping.                                      *)
C11_DeclaredSourceKept ==
    pc \in {"returned", "done"} =>
        /\ metrics_source = DeclaredMetricsSource
        /\ \A k \in DOMAIN SourceValue(DeclaredMetricsSource, population) :
             k \in DOMAIN result

(* C12 as claimed: every emission on post_setup, time_step__prepare,         *)
(* time_step, time_step__cleanup and simulation_end passes the listeners an   *)
(* Event that carries the index of the affected simulants.                    *)
C12_EveryEmissionCarriesIndex ==
    \A k \in 1..Len(Emits) : Emits[k].index # NoEvent

(* positions of the history where the simulant-creation callback was called *)
Creations == {k \in 1..Len(trace) : trace[k].act = "create"}

(* C13: the initial cohort is created exactly once per run, with the        *)
(* configured population_size, when the clock is at the start time and      *)
(* before the first time_step__prepare emission (and any later emission);   *)
(* initial_age is passed exactly when it is not the empty string.           *)
C13_InitialCohort ==
    /\ Cardinality(Creations) <= 1
    /\ (pc \in {"loop", "_step"} \/ LoopEnded) => Cardinality(Creations) = 1
    /\ \A k \in Creations :
         /\ trace[k].index = input.population_size
         /\ trace[k].time = JuneFirst(input.year_start)
         /\ (input.initial_age # "") => trace[k].arg = input.initial_age
         /\ (input.initial_age = "") => trace[k].arg = "none"
    /\ \A k \in 1..Len(trace) :
         (trace[k].act = "emit" /\ trace[k].arg # "post_setup") =>
             \E j \in Creations : j < k

C13_Witness ==
    /\ pc = "done"
    /\ Cardinality(Creations) = 1
    /\ input.initial_age = ""
    /\ CountEmit("time_step__prepare") >= 2

-----------------------------------------------------------------------------
(* The interpolated lookup of tests/framework/test_lookup.py: a table with   *)
(* one row per (age, sex, year), queried for the whole population at the      *)
(* current clock.  Numbers of years are kept in quarter days, 1461 to the     *)
(* year of 365.25 days, so that year + day_of_year/365.25 is an integer.      *)

QuarterDaysPerYear == 1461

MaxAge == 2

Fixed(y) == QuarterDaysPerYear * y

YearOf(t) == CHOOSE y \in 1990..2100 : DaysBeforeYear(y) < t /\ t <= DaysBeforeYear(y + 1)

(* timetuple().tm_yday: 1 on 1 January *)
DayOfYear(t) == t - DaysBeforeYear(YearOf(t))

FractionalYearZeroBased(t) == Fixed(YearOf(t)) + 4 * (DayOfYear(t) - 1)

(* the time-like coordinate of a query: year + day_of_year/365.25 *)
FractionalYear(t) == Fixed(YearOf(t)) + 4 * DayOfYear(t)

(* build_table(lambda age, sex, year: year, year_start, year_end) *)
TableValue(age, sex, year) == Fixed(year)

TableYears(tbl) == tbl.year_start..tbl.year_end

TableAges == 0..MaxAge

Sexes == {"Male", "Female"}

(* edge policy: a coordinate beyond the observed range takes the nearest one *)
Clamp(x, lo, hi) == IF x < lo THEN lo ELSE IF x > hi THEN hi ELSE x

Maximum(S) == CHOOSE m \in S : \A n \in S : n <= m

Minimum(S) == CHOOSE m \in S : \A n \in S : m <= n

(* linear between two points of an axis; the value itself on a point *)
Linear(x, c_lo, v_lo, c_hi, v_hi) ==
    IF c_hi = c_lo THEN v_lo
    ELSE v_lo + ((v_hi - v_lo) * (x - c_lo)) \div (c_hi - c_lo)

InterpolateYear(tbl, age, sex, x) ==
    LET xc == Clamp(x, Fixed(tbl.year_start), Fixed(tbl.year_end))
        lo == Maximum({y \in TableYears(tbl) : Fixed(y) <= xc})
        hi == Minimum({y \in TableYears(tbl) : Fixed(y) >= xc})
    IN  Linear(xc, Fixed(lo), TableValue(age, sex, lo), Fixed(hi), TableValue(age, sex, hi))

(* the bucket of the row's sex, then age and time interpolated coordinate-wise *)
Interpolate(tbl, row, x) ==
    LET ac == Clamp(row.age, Fixed(0), Fixed(MaxAge))
        lo == Maximum({a \in TableAges : Fixed(a) <= ac})
        hi == Minimum({a \in TableAges : Fixed(a) >= ac})
    IN  Linear(ac, Fixed(lo), InterpolateYear(tbl, lo, row.sex, x),
                   Fixed(hi), InterpolateYear(tbl, hi, row.sex, x))

(* years(simulation.population.population.index) *)
TableCall(tbl, index) ==
    [s \in index |-> Interpolate(tbl, table[s], FractionalYear(current_time))]

(* the kernel variables the lookup and the screening module do not use *)
KernelIdle ==
    /\ self_components = <<>> /\ components = <<>> /\ i = 0 /\ done = {}
    /\ config = <<>> /\ metrics_source = "none" /\ metrics_mutators = <<>>
    /\ listeners = <<>> /\ finalized = <<>> /\ stop = NoTime /\ population = 0
    /\ wall_start = 0 /\ step_at = 0 /\ run = 1 /\ first_result = <<>>

KernelUnchanged ==
    UNCHANGED <<input, self_components, components, i, done, config, metrics_source,
                metrics_mutators, listeners, finalized, stop, population, wall_start,
                step_at, run, first_result>>

(* the populations of the test: ages in quarter days, both sexes *)
LookupPopulations ==
    {[s \in 1..2 |-> [age |-> a[s], sex |-> x[s]]] :
        a \in {<<0, 731>>, <<1461, 2000>>, <<2922, 4000>>},
        x \in {<<"Male", "Female">>, <<"Female", "Female">>}}

ClockAdvances == {61, 305}

InitLookup ==
    /\ \E y1 \in Years : input = [year_start |-> 2003, year_end |-> y1]
    /\ table \in LookupPopulations
    /\ \E y \in Years :
         /\ y <= input.year_end
         /\ current_time \in {DaysBeforeYear(y) + 1, JuneFirst(y)}
    /\ pc = "lookup"
    /\ result = <<>>
    /\ trace = <<>>
    /\ KernelIdle

(* result_years = years(simulation.population.population.index) *)
LookupQuery ==
    /\ pc \in {"lookup", "queried"}
    /\ result' = TableCall(input, DOMAIN table)
    /\ pc' = "queried"
    /\ UNCHANGED <<table, current_time, trace>>
    /\ KernelUnchanged

(* simulation.clock._time += Timedelta; population.age += the same time *)
LookupAdvance ==
    /\ pc \in {"lookup", "queried"}
    /\ \E d \in ClockAdvances :
         /\ current_time + d <= DaysBeforeYear(input.year_end + 1)
         /\ current_time' = current_time + d
         /\ table' = [s \in DOMAIN table |-> [table[s] EXCEPT !.age = @ + 4 * d]]
    /\ pc' = "lookup"
    /\ UNCHANGED <<result, trace>>
    /\ KernelUnchanged

NextLookup == LookupQuery \/ LookupAdvance

SpecLookup == InitLookup /\ [][NextLookup]_vars

-----------------------------------------------------------------------------
(* The kernel is one thread that runs until it returns or raises: a step    *)
(* that can be taken is eventually taken.                                    *)
SpecLive == Init /\ [][Next]_vars /\ WF_vars(Next)

(* C15: unless a component or a listener raises, the event loop terminates: *)
(* the clock reaches stop, simulation_end is emitted and run_simulation      *)
(* returns; with year_end <= year_start no tick is executed and              *)
(* simulation_end is still emitted.                                          *)
C15_EventLoopTerminates ==
    /\ <>(Raised \/ (/\ pc = "done"
                     /\ current_time >= stop
                     /\ CountEmit("simulation_end") = 1
                     /\ result # <<>>))
    /\ [](input.year_end <= input.year_start =>
            /\ TickTrace = <<>>
            /\ LoopEnded => CountEmit("simulation_end") = 1)

C15_Witness ==
    /\ pc = "done"
    /\ input.year_end < input.year_start
    /\ current_time > stop
    /\ CountEmit("simulation_end") = 1
    /\ TickTrace = <<>>

(* a component's own setup raised: the entry before the error is its call *)
SetupCallRaised ==
    \E k \in 2..Len(trace) : trace[k].act = "raise" /\ trace[k - 1].act = "setup_call"

(* C16 as claimed: whatever finite list of components is given, iterables   *)
(* of components and repeated components included, and unless a component's  *)
(* own setup raises, the traversal ends: the work list is exhausted and the  *)
(* four managers are finalized.                                              *)
C16_TraversalTerminates ==
    <>(SetupCallRaised \/ (i = Len(components) /\ Len(finalized) = Len(Managers)))

(* the configuration when the defaults of each distinct component of a work *)
(* list are merged once, at the component's first occurrence                 *)
RECURSIVE MergedOnce(_, _, _)
MergedOnce(cs, seen, layer) ==
    IF cs = <<>> THEN layer
    ELSE IF HasDefaults(Head(cs)) /\ Head(cs) \notin seen
         THEN MergedOnce(Tail(cs), seen \cup {Head(cs)}, ReadDict(Defaults(Head(cs)), layer))
         ELSE MergedOnce(Tail(cs), seen \cup {Head(cs)}, layer)

(* C17 as claimed: applying a component's defaults again when it is met     *)
(* again is harmless: at the end of setup the configuration is the one       *)
(* obtained by merging each distinct component's defaults exactly once, at   *)
(* its first occurrence in the work list.                                    *)
C17_ReapplyingDefaultsHarmless ==
    Len(finalized) = Len(Managers) => config = MergedOnce(components, {}, <<>>)

-----------------------------------------------------------------------------
(* The opportunistic screening module: its listeners read the rows of the   *)
(* event and write the population table.  Blood pressure is kept in tenths   *)
(* of mmHg and healthcare_followup_date in half days, so that 30.5 days and  *)
(* the efficacies of the medications are integers.                           *)

MaxEvents == 3

(* MEDICATIONS: the efficacy of each, in tenths of mmHg *)
MEDICATIONS == <<88, 88, 103, 92>>

(* config 'opportunistic_screening'.'adherence', in percent *)
Adherence == 100

(* the days of one time step of the screening module's simulation *)
ScreeningTimeStep == 30

HalfDays(d) == 2 * d

(* timedelta(days=30.5 * n), in half days *)
Months(n) == 61 * n

Uncapped(a, b) == a

Smaller(a, b) == IF a < b THEN a ELSE b

(* _hypertensive_categories *)
Normotensive(row) ==
    \/ row.age < 60 /\ row.systolic_blood_pressure < 1400
    \/ row.age >= 60 /\ row.systolic_blood_pressure < 1500

Hypertensive(row) ==
    \/ row.age < 60 /\ ~(row.systolic_blood_pressure < 1400) /\ row.systolic_blood_pressure < 1800
    \/ row.age >= 60 /\ ~(row.systolic_blood_pressure < 1500) /\ row.systolic_blood_pressure < 1800

SevereHypertension(row) == ~(row.systolic_blood_pressure < 1800)

(* the row of one simulant after non_followup_blood_pressure_test *)
NonFollowupRow(row) ==
    IF Normotensive(row)
    THEN [row EXCEPT !.healthcare_followup_date = HalfDays(current_time) + Months(60)]
    ELSE IF Hypertensive(row)
    THEN [row EXCEPT !.healthcare_followup_date = HalfDays(current_time) + Months(1)]
    ELSE [row EXCEPT !.healthcare_followup_date = HalfDays(current_time) + Months(6),
                     !.medication_count = Smaller(@ + 2, Len(MEDICATIONS))]

(* the row of one simulant after followup_blood_pressure_test *)
FollowupRow(row) ==
    IF Normotensive(row) /\ row.medication_count = 0
    THEN [row EXCEPT !.healthcare_followup_date = HalfDays(current_time) + Months(60)]
    ELSE IF Normotensive(row)
    THEN [row EXCEPT !.healthcare_followup_date = HalfDays(current_time) + Months(11)]
    ELSE [row EXCEPT !.healthcare_followup_date = HalfDays(current_time) + Months(6),
                     !.medication_count = Smaller(@ + 1, Len(MEDICATIONS))]

RECURSIVE Lowering(_, _)
(* what the first n medications take off the blood pressure in one time step *)
Lowering(n, count) ==
    IF n = 0 THEN 0
    ELSE Lowering(n - 1, count) +
         (IF count > n - 1 THEN (MEDICATIONS[n] * Adherence) \div 100 ELSE 0)

(* the row of one simulant after adjust_blood_pressure *)
AdjustedRow(row) ==
    [row EXCEPT !.systolic_blood_pressure = @ - Lowering(Len(MEDICATIONS), row.medication_count)]

ScreeningRows ==
    {[age |-> a, systolic_blood_pressure |-> p, medication_count |-> 0,
      healthcare_followup_date |-> NoTime] :
        a \in {50, 65}, p \in {1300, 1450, 1550, 1850}}

(* load_population_columns: medication_count = 0 for every simulant *)
InitScreening ==
    /\ table \in {[s \in 1..2 |-> IF s = 1 THEN r ELSE q] :
                    r \in ScreeningRows,
                    q \in {w \in ScreeningRows : w.age = 65 /\ w.systolic_blood_pressure > 1500}}
    /\ current_time = JuneFirst(2003)
    /\ input = [population_size |-> 2]
    /\ pc = "screening"
    /\ result = <<>>
    /\ trace = <<>>
    /\ KernelIdle

ScreeningUnchanged ==
    /\ UNCHANGED <<pc, result>>
    /\ KernelUnchanged

(* non_followup_blood_pressure_test(event), on 'general_healthcare_access' *)
GeneralHealthcareAccess ==
    /\ pc = "screening"
    /\ Len(trace) < MaxEvents
    /\ \E affected \in SUBSET DOMAIN table :
         /\ affected # {}
         /\ table' = [s \in DOMAIN table |->
                        IF s \in affected THEN NonFollowupRow(table[s]) ELSE table[s]]
         /\ trace' = Append(trace, Entry("general_healthcare_access", table, affected))
    /\ UNCHANGED current_time
    /\ ScreeningUnchanged

(* followup_blood_pressure_test(event), on 'followup_healthcare_access' *)
FollowupHealthcareAccess ==
    /\ pc = "screening"
    /\ Len(trace) < MaxEvents
    /\ \E affected \in SUBSET DOMAIN table :
         /\ affected # {}
         /\ table' = [s \in DOMAIN table |->
                        IF s \in affected THEN FollowupRow(table[s]) ELSE table[s]]
         /\ trace' = Append(trace, Entry("followup_healthcare_access", table, affected))
    /\ UNCHANGED current_time
    /\ ScreeningUnchanged

(* adjust_blood_pressure(event), on 'time_step'; the clock then advances *)
ScreeningStep ==
    /\ pc = "screening"
    /\ Len(trace) < MaxEvents
    /\ table' = [s \in DOMAIN table |-> AdjustedRow(table[s])]
    /\ trace' = Append(trace, Entry("time_step", table, DOMAIN table))
    /\ current_time' = current_time + ScreeningTimeStep
    /\ ScreeningUnchanged

NextScreening == GeneralHealthcareAccess \/ FollowupHealthcareAccess \/ ScreeningStep

SpecScreening == InitScreening /\ [][NextScreening]_vars

(* the last event of the screening history *)
LastEvent == trace[Len(trace)]

(* C18 as claimed: after a non-followup blood pressure test every severely  *)
(* hypertensive simulant of the event (systolic blood pressure >= 180) has   *)
(* its followup 30.5 days later (1 month) and its medication_count raised by *)
(* 2, capped at the number of medications; a normotensive one has its        *)
(* followup 60 months later and a hypertensive one 1 month later, both with  *)
(* medication_count unchanged.                                               *)
C18_NonFollowupTest ==
    (pc = "screening" /\ trace # <<>> /\ LastEvent.act = "general_healthcare_access") =>
        \A s \in LastEvent.index :
            LET before == LastEvent.arg[s]
            IN  /\ before.systolic_blood_pressure >= 1800 =>
                     /\ table[s].healthcare_followup_date = 2 * LastEvent.time + 61
                     /\ table[s].medication_count =
                          IF before.medication_count + 2 > 4 THEN 4
                          ELSE before.medication_count + 2
                /\ Normotensive(before) =>
                     /\ table[s].healthcare_followup_date = 2 * LastEvent.time + 61 * 60
                     /\ table[s].medication_count = before.medication_count
                /\ Hypertensive(before) =>
                     /\ table[s].healthcare_followup_date = 2 * LastEvent.time + 61
                     /\ table[s].medication_count = before.medication_count

-----------------------------------------------------------------------------
SetupActs == {"unpack", "defaults", "setup_call", "setup_return", "finalize"}

(* the number of clock advances recorded before position k of the history *)
AdvancesBefore(k) == Cardinality({j \in 1..(k - 1) : trace[j].act = "advance"})

(* C19: the clock is unset during setup and at post_setup, is the start     *)
(* time when the initial cohort is created, has one value at the three       *)
(* emissions of a tick, grows by exactly time_step from one tick to the next *)
(* and never decreases; a clock obtained from the Builder during setup       *)
(* (the one the history reads) returns the clock's value at the moment it is *)
(* called, not at the moment it was obtained.                                *)
C19_Clock ==
    /\ [](/\ pc \in {"start", "traverse", "in_setup", "finalize", "post_setup", "ready"} =>
                current_time = NoTime
          /\ \A k \in 1..Len(trace) :
               /\ (trace[k].act \in SetupActs \/
                   (trace[k].act = "emit" /\ trace[k].arg = "post_setup")) =>
                      trace[k].time = NoTime
               /\ trace[k].act = "create" => trace[k].time = JuneFirst(input.year_start)
               /\ (trace[k].act = "emit" /\ trace[k].arg \in TickChannels) =>
                      trace[k].time =
                          JuneFirst(input.year_start) + input.time_step * AdvancesBefore(k)
               /\ \A j \in 1..k : trace[j].time <= trace[k].time)
    /\ [][/\ current_time' >= current_time
          /\ (current_time # NoTime /\ current_time' # current_time) =>
                current_time' = current_time + input.time_step]_vars

C19_Witness ==
    /\ pc = "_step"
    /\ Advances = 1
    /\ CountEmit("time_step") = 2
    /\ CountEmit("post_setup") = 1
    /\ current_time = JuneFirst(input.year_start) + input.time_step
    /\ trace[Len(trace)].time = current_time

RECURSIVE CreatedBefore(_)
(* the simulants created before position k of the history: the initial     *)
(* cohort and those listeners created                                       *)
CreatedBefore(k) ==
    IF k <= 1 THEN 0
    ELSE CreatedBefore(k - 1) +
         (IF trace[k - 1].act \in {"create", "born"} THEN trace[k - 1].index ELSE 0)

(* C20: every event of a tick and the simulation_end event carry the        *)
(* population index as it is at the moment of the emission: the simulants a  *)
(* time_step__prepare listener created are in the same tick's time_step and  *)
(* time_step__cleanup events, and those created in the last tick are in the  *)
(* index of simulation_end and of the metrics computation.                   *)
C20_IndexAtEmission ==
    \A k \in 1..Len(trace) :
        /\ (trace[k].act = "emit" /\ trace[k].arg # "post_setup") =>
               trace[k].index = CreatedBefore(k)
        /\ trace[k].act = "metrics" => trace[k].index = CreatedBefore(k)

C20_Witness ==
    /\ pc = "done"
    /\ Advances = 1
    /\ \E k \in 1..Len(trace) :
         /\ trace[k].act = "emit" /\ trace[k].arg = "time_step__prepare"
         /\ trace[k].index = input.population_size
         /\ trace[k + 1].act = "born"
         /\ trace[k + 2].act = "emit" /\ trace[k + 2].arg = "time_step"
         /\ trace[k + 2].index = input.population_size + 1
    /\ trace[Len(trace)].act = "metrics"
    /\ trace[Len(trace)].index = input.population_size + 1
    /\ Emits[Len(Emits)].arg = "simulation_end"
    /\ Emits[Len(Emits)].index = input.population_size + 1

-----------------------------------------------------------------------------
(* the population table right after event k of the screening history *)
TableAfter(k) == IF k = Len(trace) THEN table ELSE trace[k + 1].arg

(* C21: starting from medication_count = 0 for every simulant, after any    *)
(* sequence of general_healthcare_access, followup_healthcare_access and     *)
(* time_step events every simulant's medication_count is between 0 and 4     *)
(* and has never decreased; a followup test raises it by at most 1, a        *)
(* non-followup test by at most 2, and a normotensive result, a time step    *)
(* and an event the simulant is not part of leave it unchanged.              *)
C21_MedicationCount ==
    pc = "screening" =>
        /\ \A s \in DOMAIN table :
             table[s].medication_count >= 0 /\ table[s].medication_count <= 4
        /\ \A k \in 1..Len(trace) : \A s \in DOMAIN table :
             LET before == trace[k].arg[s].medication_count
                 after == TableAfter(k)[s].medication_count
             IN  /\ after >= before
                 /\ trace[k].act = "followup_healthcare_access" => after <= before + 1
                 /\ trace[k].act = "general_healthcare_access" => after <= before + 2
                 /\ trace[k].act = "time_step" => after = before
                 /\ s \notin trace[k].index => after = before
                 /\ Normotensive(trace[k].arg[s]) => after = before

C21_Witness ==
    /\ pc = "screening"
    /\ Len(trace) = 3
    /\ trace[1].act = "general_healthcare_access"
    /\ trace[2].act = "followup_healthcare_access"
    /\ trace[3].act = "general_healthcare_access"
    /\ 2 \in trace[1].index /\ 2 \in trace[2].index /\ 2 \in trace[3].index
    /\ trace[2].arg[2].medication_count = 2
    /\ trace[3].arg[2].medication_count = 3
    /\ table[2].medication_count = 4

(* a simulant whose pressure the medication brought under the threshold is  *)
(* tested normotensive and keeps its medication_count                        *)
C21_WitnessNormotensive ==
    /\ pc = "screening"
    /\ Len(trace) = 3
    /\ trace[2].act = "time_step"
    /\ trace[3].act = "followup_healthcare_access"
    /\ 2 \in trace[3].index
    /\ Normotensive(trace[3].arg[2])
    /\ trace[3].arg[2].medication_count > 0
    /\ table[2].medication_count = trace[3].arg[2].medication_count

====
